---- MODULE Spec2Model ----
(***************************************************************************)
(* A model of market-digest-backend (src/main.py): the upstream client     *)
(* http_get, the metric normaliser (normalize_div_yield, get_metrics), the *)
(* earnings resolver (get_next_earnings) and the three ticker endpoints.   *)
(*                                                                         *)
(* Python str values are sequences of one-character strings.  Python float *)
(* and int values are exact decimals [m, e] standing for m / 10^e, kept    *)
(* normalised (no trailing zero in the fraction).  JSON values are records *)
(* [t, n, s]: t is the Python type, n the number, s the string.            *)
(***************************************************************************)
EXTENDS Integers, Sequences, FiniteSets, TLC

VARIABLES
    op,        \* the operation in progress
    pc,        \* its position: "call", "loop" or "done"
    arg,       \* the input of the operation
    ret,       \* what the operation returned
    status,    \* HTTP status of the response (0 while none was sent)
    syms,      \* the comma-separated entries still to be processed
    results,   \* the records appended so far by the handler's loop
    calls,     \* the upstream calls made by the request, in order
    sent,      \* the number of HTTP requests issued by the request
    window     \* get_news_brief's from_date and to_date

vars == <<op, pc, arg, ret, status, syms, results, calls, sent, window>>

\* The variables of a request in progress.
reqvars == <<status, syms, results, calls, sent, window>>

---------------------------------------------------------------------------
(* Bounds of the model. *)

MaxLen == 3

MaxDec == 7

MaxRows == 2

MaxNews == 4

MaxTickers == 4

---------------------------------------------------------------------------
(* Decimal numbers. *)

Pow10(k) == 10 ^ k

Abs(x) == IF x < 0 THEN 0 - x ELSE x

RECURSIVE Norm(_, _)
Norm(m, e) ==
    IF m = 0 THEN [m |-> 0, e |-> 0]
    ELSE IF e > 0 /\ m % 10 = 0 THEN Norm(m \div 10, e - 1)
    ELSE [m |-> m, e |-> e]

Zero == [m |-> 0, e |-> 0]

\* 0 < val < 1
IsFraction(d) == d.m > 0 /\ d.m < Pow10(d.e)

\* val * 100.0
Mul100(d) ==
    IF d.e >= 2 THEN Norm(d.m, d.e - 2) ELSE Norm(d.m * Pow10(2 - d.e), 0)

\* round(val, 4): the nearest multiple of 10^-4.  A double is not the exact
\* decimal: at a decimal tie the double lies on one side of it, and `above`
\* says on which.
Round4(d, above) ==
    IF d.e <= 4 THEN d
    ELSE LET k == Pow10(d.e - 4)
             a == Abs(d.m)
             q == a \div k
             r == a % k
             up == (2 * r > k) \/ (2 * r = k /\ above)
             q2 == IF up THEN q + 1 ELSE q
         IN  Norm(IF d.m < 0 THEN 0 - q2 ELSE q2, 4)

---------------------------------------------------------------------------
(* Python strings. *)

DigitChars == <<"0", "1", "2", "3", "4", "5", "6", "7", "8", "9">>

IsDigitChar(c) == \E i \in 1..10 : DigitChars[i] = c

DigitVal(c) == (CHOOSE i \in 1..10 : DigitChars[i] = c) - 1

\* str.isdigit(): at least one character, all of them digits.
isdigit(s) == Len(s) > 0 /\ \A i \in 1..Len(s) : IsDigitChar(s[i])

\* str.replace(old, '', 1): the first occurrence of the character removed.
replace_first(s, c) ==
    IF \E i \in 1..Len(s) : s[i] = c
    THEN LET i == CHOOSE i \in 1..Len(s) : s[i] = c /\ \A j \in 1..(i - 1) : s[j] # c
         IN  SubSeq(s, 1, i - 1) \o SubSeq(s, i + 1, Len(s))
    ELSE s

\* str.lstrip(c): every leading c removed.
RECURSIVE lstrip(_, _)
lstrip(s, c) == IF Len(s) > 0 /\ s[1] = c THEN lstrip(Tail(s), c) ELSE s

\* The number a string of digits denotes ("" denotes 0).
RECURSIVE DigitsVal(_)
DigitsVal(s) ==
    IF Len(s) = 0 THEN 0
    ELSE DigitsVal(SubSeq(s, 1, Len(s) - 1)) * 10 + DigitVal(s[Len(s)])

\* The decimal digits of a natural number.
RECURSIVE NatStr(_)
NatStr(n) ==
    IF n < 10 THEN <<DigitChars[n + 1]>>
    ELSE NatStr(n \div 10) \o <<DigitChars[(n % 10) + 1]>>

\* str(int)
IntStr(n) == IF n < 0 THEN <<"-">> \o NatStr(0 - n) ELSE NatStr(n)

RECURSIVE Zeros(_)
Zeros(k) == IF k <= 0 THEN <<>> ELSE <<"0">> \o Zeros(k - 1)

\* str(float), the shortest repr: scientific notation when the decimal
\* exponent is below -4 (or at least 16), positional notation otherwise.
FloatStr(d) ==
    LET digs == NatStr(Abs(d.m))
        sign == IF d.m < 0 THEN <<"-">> ELSE <<>>
        pos  == Len(digs) - d.e          \* digits before the decimal point
        x    == pos - 1                  \* decimal exponent of the first digit
    IN  IF d.m = 0 THEN <<"0", ".", "0">>
        ELSE IF x < -4 \/ x >= 16
        THEN sign \o <<digs[1]>>
                  \o (IF Len(digs) > 1 THEN <<".">> \o Tail(digs) ELSE <<>>)
                  \o (IF x < 0 THEN <<"e", "-">> ELSE <<"e", "+">>)
                  \o (IF Abs(x) < 10 THEN <<"0">> ELSE <<>>) \o NatStr(Abs(x))
        ELSE IF pos <= 0
        THEN sign \o <<"0", ".">> \o Zeros(0 - pos) \o digs
        ELSE sign \o SubSeq(digs, 1, pos) \o <<".">>
                  \o (IF d.e > 0 THEN SubSeq(digs, pos + 1, Len(digs)) ELSE <<"0">>)

\* float(str) accepts, of the strings over CharSet: an optional sign, then
\* digits with at most one point and at least one digit.
FloatBody(s) ==
    /\ \E i \in 1..Len(s) : IsDigitChar(s[i])
    /\ \A i \in 1..Len(s) : IsDigitChar(s[i]) \/ s[i] = "."
    /\ Cardinality({i \in 1..Len(s) : s[i] = "."}) <= 1

Unsigned(s) == IF Len(s) > 0 /\ s[1] = "-" THEN Tail(s) ELSE s

FloatParses(s) == FloatBody(Unsigned(s))

\* The value float(str) returns for a string it accepts.
FloatOfStr(s) ==
    LET b == Unsigned(s)
        neg == Len(s) > 0 /\ s[1] = "-"
        hasPoint == \E i \in 1..Len(b) : b[i] = "."
        p == IF hasPoint THEN CHOOSE i \in 1..Len(b) : b[i] = "." ELSE Len(b) + 1
        ip == SubSeq(b, 1, p - 1)
        fp == SubSeq(b, p + 1, Len(b))
        mag == DigitsVal(ip \o fp)
    IN  Norm(IF neg THEN 0 - mag ELSE mag, Len(fp))

---------------------------------------------------------------------------
(* JSON / Python values. *)

NoneV == [t |-> "none", n |-> Zero, s |-> <<>>]
IntV(k) == [t |-> "int", n |-> Norm(k, 0), s |-> <<>>]
FloatV(d) == [t |-> "float", n |-> d, s |-> <<>>]
StrV(x) == [t |-> "str", n |-> Zero, s |-> x]
BoolV(b) == [t |-> "bool", n |-> IF b THEN Norm(1, 0) ELSE Zero, s |-> <<>>]
ListV == [t |-> "list", n |-> Zero, s |-> <<>>]

\* Where a value is expected: no value yet, and a raised exception.
Pending == [t |-> "pending", n |-> Zero, s |-> <<>>]

Raised == [t |-> "raised", n |-> Zero, s |-> <<>>]

\* str(value)
str(v) ==
    CASE v.t = "str" -> v.s
      [] v.t = "int" -> IntStr(v.n.m)
      [] v.t = "float" -> FloatStr(v.n)
      [] v.t = "bool" -> IF v.n.m = 1 THEN <<"T", "r", "u", "e">>
                         ELSE <<"F", "a", "l", "s", "e">>
      [] v.t = "none" -> <<"N", "o", "n", "e">>
      [] OTHER -> <<"[", "]">>

\* float(value): the number, or Raised on ValueError / TypeError.
float(v) ==
    CASE v.t \in {"int", "float", "bool"} -> FloatV(v.n)
      [] v.t = "str" -> IF FloatParses(v.s) THEN FloatV(FloatOfStr(v.s)) ELSE Raised
      [] OTHER -> Raised

normalize_div_yield_closed(raw, above) ==
    IF raw.t = "none" THEN NoneV
    ELSE LET val == float(raw)
         IN  IF val = Raised THEN NoneV
             ELSE IF val.n.m > 0 /\ val.n.m <= Pow10(val.n.e)
                  THEN FloatV(Round4(Mul100(val.n), above))
                  ELSE FloatV(Round4(val.n, above))

\* normalize_div_yield(raw)
normalize_div_yield(raw, above) ==
    IF raw.t = "none" THEN NoneV
    ELSE LET val == float(raw)
         IN  IF val = Raised THEN NoneV
             ELSE IF IsFraction(val.n)
                  THEN FloatV(Round4(Mul100(val.n), above))
                  ELSE FloatV(Round4(val.n, above))

\* The conditional expression of the "pe_ttm" and "eps_ttm" entries:
\* float(x) if isinstance(x, (int, float, str)) and
\* str(x).replace('.', '', 1).lstrip('-').isdigit() else None.
\* bool is a subclass of int.  float(x) raises where float() rejects x.
coerce(x) ==
    IF /\ x.t \in {"int", "float", "str", "bool"}
       /\ isdigit(lstrip(replace_first(str(x), "."), "-"))
    THEN float(x)
    ELSE NoneV

\* The keys get_metrics reads; a key the payload lacks reads as None.
MetricKeys ==
    {"peBasicExclExtraTTM", "peTTM", "epsInclExtraItemsTTM", "epsTTM",
     "epsNormalizedAnnual", "dividendYieldIndicatedAnnual"}

NoMetric == [k \in MetricKeys |-> NoneV]

EmptyObj == [k |-> "empty"]

MetricBody(m) == [k |-> "metric", metric |-> m]

\* metric = (data or {}).get("metric", {}) or {}
metric_of(data) == IF data.k = "metric" THEN data.metric ELSE NoMetric

\* get_metrics(symbol) past its http_get call, whose result is `data`:
\* the returned dict, or raised when a float() conversion raises.
get_metrics(data, above) ==
    LET metric == metric_of(data)
        pe0 == metric["peBasicExclExtraTTM"]
        pe == IF pe0.t = "none" THEN metric["peTTM"] ELSE pe0
        eps0 == metric["epsInclExtraItemsTTM"]
        eps1 == IF eps0.t = "none" THEN metric["epsTTM"] ELSE eps0
        eps == IF eps1.t = "none" THEN metric["epsNormalizedAnnual"] ELSE eps1
        div_yield_pct == normalize_div_yield(metric["dividendYieldIndicatedAnnual"], above)
        pe_ttm == coerce(pe)
        eps_ttm == coerce(eps)
    IN  IF pe_ttm = Raised \/ eps_ttm = Raised
        THEN [raised |-> TRUE, pe_ttm |-> NoneV, eps_ttm |-> NoneV,
              div_yield_pct |-> NoneV]
        ELSE [raised |-> FALSE, pe_ttm |-> pe_ttm, eps_ttm |-> eps_ttm,
              div_yield_pct |-> div_yield_pct]

---------------------------------------------------------------------------
(* Dates. *)

\* A datetime.date.
Date(y, m, d) == [y |-> y, m |-> m, d |-> d]

IsLeap(y) == (y % 4 = 0 /\ y % 100 # 0) \/ y % 400 = 0

DaysIn(y, m) ==
    IF m = 2 THEN (IF IsLeap(y) THEN 29 ELSE 28)
    ELSE IF m \in {4, 6, 9, 11} THEN 30 ELSE 31

\* The order of dates (d1 >= d2, min).
Ordinal(dt) == dt.y * 10000 + dt.m * 100 + dt.d

Pad(n, width) == LET ds == NatStr(n) IN Zeros(width - Len(ds)) \o ds

\* date.isoformat()
isoformat(dt) == Pad(dt.y, 4) \o <<"-">> \o Pad(dt.m, 2) \o <<"-">> \o Pad(dt.d, 2)

\* The directive %m of strptime: 1[0-2]|0[1-9]|[1-9].
MonthField(f) ==
    /\ Len(f) \in {1, 2}
    /\ isdigit(f)
    /\ DigitsVal(f) \in 1..12

\* The directive %d of strptime: 3[01]|[12]\d|0[1-9]|[1-9]| [1-9].
DayField(f) ==
    \/ Len(f) \in {1, 2} /\ isdigit(f) /\ DigitsVal(f) \in 1..31
    \/ Len(f) = 2 /\ f[1] = " " /\ isdigit(Tail(f)) /\ DigitsVal(Tail(f)) \in 1..9

DayVal(f) == IF f[1] = " " THEN DigitsVal(Tail(f)) ELSE DigitsVal(f)

\* Where the second "-" of a string stands, when the month field has one or
\* two characters (0 when it has neither).
SecondDash(s) ==
    IF Len(s) >= 7 /\ s[7] = "-" THEN 7
    ELSE IF Len(s) >= 8 /\ s[8] = "-" THEN 8
    ELSE 0

\* Whether datetime.strptime(s, "%Y-%m-%d") returns (it raises ValueError
\* on a string the format does not match whole, and on a day the month
\* lacks or a year 0).
strptime_ok(s) ==
    /\ Len(s) >= 8
    /\ isdigit(SubSeq(s, 1, 4))
    /\ s[5] = "-"
    /\ SecondDash(s) # 0
    /\ LET p == SecondDash(s)
           mf == SubSeq(s, 6, p - 1)
           df == SubSeq(s, p + 1, Len(s))
       IN  /\ MonthField(mf)
           /\ DayField(df)
           /\ DigitsVal(SubSeq(s, 1, 4)) >= 1
           /\ DayVal(df) <= DaysIn(DigitsVal(SubSeq(s, 1, 4)), DigitsVal(mf))

\* The date datetime.strptime(s, "%Y-%m-%d").date() returns.
strptime(s) ==
    LET p == SecondDash(s)
    IN  Date(DigitsVal(SubSeq(s, 1, 4)), DigitsVal(SubSeq(s, 6, p - 1)),
             DayVal(SubSeq(s, p + 1, Len(s))))

\* A row of the earnings calendar: its symbol (a string) and its date (any
\* JSON value).
Row(sym, date) == [symbol |-> sym, date |-> date]

CalBody(rows) == [k |-> "calendar", earningsCalendar |-> rows]

\* bool(value), for the values a date field takes.
truthy(v) ==
    CASE v.t = "none" -> FALSE
      [] v.t = "str" -> Len(v.s) > 0
      [] v.t \in {"int", "float", "bool"} -> v.n.m # 0
      [] OTHER -> FALSE

\* The loop of get_next_earnings over the rows kept by the filter: the
\* parsed dates d >= today, a row whose date raises being skipped
\* (a date that is no str raises TypeError in strptime).
RECURSIVE future_dates_from(_, _)
future_dates_from(future, today) ==
    IF future = <<>> THEN <<>>
    ELSE LET row == Head(future)
             rest == future_dates_from(Tail(future), today)
         IN  IF row.date.t = "str" /\ strptime_ok(row.date.s)
             THEN (IF Ordinal(strptime(row.date.s)) >= Ordinal(today)
                   THEN <<strptime(row.date.s)>> \o rest
                   ELSE rest)
             ELSE rest

\* future = [row for row in cal if row.get("symbol") == symbol and row.get("date")]
future_rows(cal, symbol) ==
    SelectSeq(cal, LAMBDA row : row.symbol = symbol /\ truthy(row.date))

\* min(future_dates)
min_date(ds) ==
    CHOOSE d \in {ds[i] : i \in 1..Len(ds)} :
        \A j \in 1..Len(ds) : Ordinal(d) <= Ordinal(ds[j])

get_next_earnings_first(symbol, today, payload) ==
    LET cal == IF payload.k = "calendar" THEN payload.earningsCalendar ELSE <<>>
        future_dates == future_dates_from(future_rows(cal, symbol), today)
    IN  IF future_dates = <<>> THEN NoneV
        ELSE StrV(isoformat(Head(future_dates)))

\* get_next_earnings(symbol) past its http_get call, whose result is
\* `payload`, with today = datetime.utcnow().date().
get_next_earnings(symbol, today, payload) ==
    LET cal == IF payload.k = "calendar" THEN payload.earningsCalendar ELSE <<>>
        future_dates == future_dates_from(future_rows(cal, symbol), today)
    IN  IF future_dates = <<>> THEN NoneV
        ELSE StrV(isoformat(min_date(future_dates)))

---------------------------------------------------------------------------
(* The upstream client. *)

\* What requests.get does: it raises (connection error, timeout), or it
\* returns a response with a status code and a body.
TransportError == [kind |-> "error"]

Response(code, body) == [kind |-> "response", status_code |-> code, body |-> body]

\* A body r.json() cannot decode.
Undecodable == [k |-> "undecodable"]

\* What propagates out of a function when an exception is not caught.
RaisedObj == [k |-> "raised"]

\* r.raise_for_status(): HTTPError for a 4xx or a 5xx status, nothing else.
raises_for_status(resp) == 400 <= resp.status_code /\ resp.status_code < 600

\* The number of requests.get calls of one http_get invocation.
requests_made(resp) == 1

http_get_unguarded(resp) ==
    IF resp.kind = "error" THEN RaisedObj
    ELSE IF raises_for_status(resp) THEN EmptyObj
    ELSE IF resp.body.k = "undecodable" THEN EmptyObj
    ELSE resp.body

http_get_body_on_error(resp) ==
    IF resp.kind = "error" THEN EmptyObj
    ELSE IF resp.body.k = "undecodable" THEN EmptyObj
    ELSE resp.body

\* http_get(path, params), given what its requests.get call does: the
\* decoded body, or {} from either except clause.
http_get(resp) ==
    IF resp.kind = "error" THEN EmptyObj
    ELSE IF raises_for_status(resp) THEN EmptyObj
    ELSE IF resp.body.k = "undecodable" THEN EmptyObj
    ELSE resp.body

\* dict.get(key): None for a key the object lacks.
get(obj, key) == IF key \in DOMAIN obj THEN obj[key] ELSE NoneV

---------------------------------------------------------------------------
(* The ticker list. *)

HasChar(s, c) == \E i \in 1..Len(s) : s[i] = c

FirstIndex(s, c) == CHOOSE i \in 1..Len(s) : s[i] = c /\ \A j \in 1..(i - 1) : s[j] # c

\* str.split(sep)
RECURSIVE split(_, _)
split(s, sep) ==
    IF HasChar(s, sep)
    THEN <<SubSeq(s, 1, FirstIndex(s, sep) - 1)>>
            \o split(SubSeq(s, FirstIndex(s, sep) + 1, Len(s)), sep)
    ELSE <<s>>

RECURSIVE rstrip(_, _)
rstrip(s, c) ==
    IF Len(s) > 0 /\ s[Len(s)] = c THEN rstrip(SubSeq(s, 1, Len(s) - 1), c) ELSE s

\* str.strip(), the blank being the whitespace of the model
strip(s) == rstrip(lstrip(s, " "), " ")

UpperChar(c) ==
    CASE c = "a" -> "A"
      [] c = "b" -> "B"
      [] OTHER -> c

\* str.upper()
RECURSIVE upper(_)
upper(s) == IF s = <<>> THEN <<>> ELSE <<UpperChar(Head(s))>> \o upper(Tail(s))

symbol_unstripped(t) == upper(t)

\* sym = t.strip().upper()
symbol_of(t) == upper(strip(t))

---------------------------------------------------------------------------
(* The records of the three endpoints. *)

\* The separator of range_day, the character U+2013.
Dash == <<"EN DASH">>

\* One entry of get_market_snapshot's results, from the quote q.
snapshot_record(sym, q) ==
    [ticker |-> sym,
     price |-> get(q, "c"),
     change_pct |-> get(q, "dp"),
     volume |-> get(q, "v"),
     range_day |-> IF get(q, "l").t # "none" /\ get(q, "h").t # "none"
                   THEN StrV(str(get(q, "l")) \o Dash \o str(get(q, "h")))
                   ELSE NoneV,
     range_52w |-> NoneV,
     market_cap |-> NoneV,
     beta |-> NoneV,
     notes |-> <<>>]

\* One entry of get_fundamentals' out.
fundamentals_record(sym, metrics, next_earn) ==
    [ticker |-> sym,
     pe_ttm |-> metrics.pe_ttm,
     div_yield_pct |-> metrics.div_yield_pct,
     eps_ttm |-> metrics.eps_ttm,
     next_earnings |-> next_earn]

TopN == 3

news_list(r) == IF r.k = "news" THEN r.items ELSE <<>>

headline_record(n) ==
    [headline |-> n.headline, source |-> n.source,
     time |-> StrV(str(n.datetime)), url |-> n.url]

RECURSIVE map_headlines(_)
map_headlines(ns) ==
    IF ns = <<>> THEN <<>>
    ELSE <<headline_record(Head(ns))>> \o map_headlines(Tail(ns))

top_headlines_all(r) == map_headlines(news_list(r))

\* top = [{...} for n in (r or [])[:3]]
top_headlines(r) ==
    LET ns == news_list(r)
    IN  map_headlines(SubSeq(ns, 1, IF Len(ns) < TopN THEN Len(ns) ELSE TopN))

news_record(sym, r) == [ticker |-> sym, items |-> top_headlines(r)]

\* An instant: a date and an hour of the day.
Instant(dt, h) == [date |-> dt, hour |-> h]

PrevDay(dt) ==
    IF dt.d > 1 THEN Date(dt.y, dt.m, dt.d - 1)
    ELSE IF dt.m > 1 THEN Date(dt.y, dt.m - 1, DaysIn(dt.y, dt.m - 1))
    ELSE Date(dt.y - 1, 12, 31)

\* now - timedelta(hours=k)
RECURSIVE hours_before(_, _)
hours_before(now, k) ==
    IF k <= now.hour THEN Instant(now.date, now.hour - k)
    ELSE hours_before(Instant(PrevDay(now.date), 23), k - now.hour - 1)

Max(a, b) == IF a > b THEN a ELSE b
Min(a, b) == IF a < b THEN a ELSE b

MaxLookback == 24 * 7

lookback_unclamped(h) == Max(1, h)

\* max(1, min(lookback_hours, 24*7))
lookback(h) == Max(1, Min(h, MaxLookback))

\* from_date and to_date of get_news_brief
news_window(now, h) ==
    [from_date |-> isoformat(hours_before(now, lookback(h)).date),
     to_date |-> isoformat(now.date)]

---------------------------------------------------------------------------
(* Inputs. *)

CharSet == {"-", ".", "0", "1", "5", "N"}

\* The sequences over S of length at most k.
SeqsUpTo(S, k) == UNION {[1..i -> S] : i \in 0..k}

Strings == SeqsUpTo(CharSet, MaxLen)

Mantissas == {-15, -1, 0, 1, 5, 15, 25, 125, 3125, 10001}

Decimals == {Norm(m, e) : m \in Mantissas, e \in 0..MaxDec}

Values ==
    {NoneV, ListV, BoolV(TRUE), BoolV(FALSE)}
        \cup {StrV(s) : s \in Strings}
        \cup {IntV(k) : k \in Mantissas}
        \cup {FloatV(d) : d \in Decimals}

SmallValues == {NoneV, IntV(5)}

PeKeys == {"peBasicExclExtraTTM", "peTTM"}

EpsKeys == {"epsInclExtraItemsTTM", "epsTTM", "epsNormalizedAnnual"}

ChainOf(f) ==
    IF f \in PeKeys THEN PeKeys ELSE IF f \in EpsKeys THEN EpsKeys ELSE {f}

\* A metric object: key f takes the value v, the other keys of its fallback
\* chain are as g gives them (absent or a number), the remaining keys are
\* absent.
MetricInput(f, v, g) ==
    [k \in MetricKeys |->
        IF k = f THEN v ELSE IF k \in ChainOf(f) THEN g[k] ELSE NoneV]

SymX == <<"X">>
SymY == <<"Y">>

Todays == {Date(2098, 12, 1), Date(2099, 2, 28)}

\* The date formatted by "%Y-%m-%d" with or without zero padding.
Unpadded(dt) == Pad(dt.y, 4) \o <<"-">> \o NatStr(dt.m) \o <<"-">> \o NatStr(dt.d)

CalendarDates ==
    {Date(2096, 2, 29), Date(2098, 11, 30), Date(2098, 12, 1), Date(2099, 1, 1), Date(2099, 3, 1)}

\* The values of a row's "date": dates in ISO form, dates without zero
\* padding, a day the month lacks, and values that are no date.
DateValues ==
    {StrV(isoformat(dt)) : dt \in CalendarDates}
        \cup {StrV(Unpadded(dt)) : dt \in {Date(2099, 1, 1), Date(2099, 3, 1)}}
        \cup {NoneV, IntV(20990101), StrV(<<>>),
              StrV(isoformat(Date(2099, 2, 29))),
              StrV(isoformat(Date(2099, 13, 1))),
              StrV(isoformat(Date(2099, 0, 10))),
              StrV(isoformat(Date(0, 1, 1))),
              StrV(<<"2", "0", "9", "9", "/", "0", "1", "/", "0", "1">>),
              StrV(<<"2", "0", "9", "9", "-", "0", "1", "-", " ", "5">>),
              StrV(<<"2", "0", "9", "9", "-", "0", "1", "-", "0", "1", "T">>)}

CalendarRows ==
    {Row(SymX, v) : v \in DateValues}
        \cup {Row(SymY, StrV(isoformat(dt))) : dt \in {Date(2098, 12, 1), Date(2099, 1, 1)}}

NoWindow == [from_date |-> <<>>, to_date |-> <<>>]

Idle ==
    /\ status = 0 /\ syms = <<>> /\ results = <<>> /\ calls = <<>> /\ sent = 0
    /\ window = NoWindow

---------------------------------------------------------------------------
(* The pure functions, each applied to every input of its bounded domain. *)

NoArg == [k |-> "none"]

InitPure ==
    /\ op = "none"
    /\ pc = "start"
    /\ arg = NoArg
    /\ ret = Pending
    /\ Idle

Enter(name, input) ==
    /\ op' = name
    /\ arg' = input
    /\ pc' = "call"
    /\ UNCHANGED <<ret, reqvars>>

Return(name, value) ==
    /\ op = name
    /\ pc = "call"
    /\ ret' = value
    /\ pc' = "done"
    /\ UNCHANGED <<op, arg, reqvars>>

EnterYield ==
    /\ pc = "start"
    /\ \E raw \in Values : Enter("normalize_div_yield", raw)

CallYield ==
    pc = "call" /\ \E above \in BOOLEAN : Return("normalize_div_yield", normalize_div_yield(arg, above))

NextYield == EnterYield \/ CallYield

SpecYield == InitPure /\ [][NextYield]_vars

EnterMetrics ==
    /\ pc = "start"
    /\ \E f \in MetricKeys, v \in Values, failed \in BOOLEAN :
          \E g \in [ChainOf(f) \ {f} -> SmallValues] :
              Enter("get_metrics",
                    IF failed THEN EmptyObj ELSE MetricBody(MetricInput(f, v, g)))

CallMetrics ==
    pc = "call" /\ \E above \in BOOLEAN : Return("get_metrics", get_metrics(arg, above))

NextMetrics == EnterMetrics \/ CallMetrics

SpecMetrics == InitPure /\ [][NextMetrics]_vars

EnterEarnings ==
    /\ pc = "start"
    /\ \E t \in Todays, rows \in SeqsUpTo(CalendarRows, MaxRows), failed \in BOOLEAN :
          Enter("get_next_earnings",
                [symbol |-> SymX, today |-> t,
                 payload |-> IF failed THEN EmptyObj ELSE CalBody(rows)])

CallEarnings ==
    Return("get_next_earnings",
           get_next_earnings(arg.symbol, arg.today, arg.payload))

NextEarnings == EnterEarnings \/ CallEarnings

SpecEarnings == InitPure /\ [][NextEarnings]_vars

---------------------------------------------------------------------------
(* The endpoints.  A request is received, the handler's loop takes one     *)
(* entry of tickers.split(",") per step, and the response is returned.     *)

Endpoints == {"get_market_snapshot", "get_fundamentals", "get_news_brief"}

Request(tickers, lookback_hours, now) ==
    [tickers |-> tickers, lookback_hours |-> lookback_hours, now |-> now]

ErrorBody(detail) == [k |-> "error", detail |-> detail]

\* The status FastAPI answers with when the required query parameter
\* `tickers: str` is absent: the handler is not called.
status_when_missing == 422

\* The status of raise HTTPException(status_code=400, ...)
status_when_empty == 400

\* A request arrives at an endpoint: the parameter check of the framework,
\* the handler's `if not tickers`, and the handler's set-up before its loop.
Receive(ep, req) ==
    /\ op' = ep
    /\ arg' = req
    /\ calls' = <<>>
    /\ sent' = 0
    /\ results' = <<>>
    /\ IF req.tickers.t = "none"
       THEN /\ status' = status_when_missing
            /\ ret' = ErrorBody("Field required")
            /\ pc' = "done"
            /\ UNCHANGED <<syms, window>>
       ELSE IF req.tickers.s = <<>>
       THEN /\ status' = status_when_empty
            /\ ret' = ErrorBody("Provide ?tickers=COMMA,SEP,SYMBOLS")
            /\ pc' = "done"
            /\ UNCHANGED <<syms, window>>
       ELSE /\ syms' = split(req.tickers.s, ",")
            /\ window' = IF ep = "get_news_brief"
                         THEN news_window(req.now, req.lookback_hours)
                         ELSE NoWindow
            /\ pc' = "loop"
            /\ UNCHANGED <<status, ret>>

Call(path, sym, resp) ==
    [path |-> path, index |-> Len(results) + 1, symbol |-> sym, resp |-> resp,
     data |-> http_get(resp)]

\* An unhandled exception leaves the handler: the framework answers 500.
Fail ==
    /\ status' = 500
    /\ ret' = ErrorBody("Internal Server Error")
    /\ pc' = "done"
    /\ UNCHANGED <<results, syms>>

\* An entry that is empty once stripped: `continue`.
SkipEntry ==
    /\ pc = "loop"
    /\ syms # <<>>
    /\ symbol_of(Head(syms)) = <<>>
    /\ syms' = Tail(syms)
    /\ UNCHANGED <<op, pc, arg, ret, status, results, calls, sent, window>>

\* One iteration of get_market_snapshot's loop.
SnapshotStep(outcomes) ==
    /\ op = "get_market_snapshot"
    /\ pc = "loop"
    /\ syms # <<>>
    /\ symbol_of(Head(syms)) # <<>>
    /\ \E resp \in outcomes :
          LET sym == symbol_of(Head(syms))
              call == Call("/quote", sym, resp)
          IN  /\ calls' = Append(calls, call)
              /\ sent' = sent + requests_made(resp)
              /\ IF call.data.k = "raised" THEN Fail
                 ELSE /\ results' = Append(results, snapshot_record(sym, call.data))
                      /\ syms' = Tail(syms)
                      /\ UNCHANGED <<pc, ret, status>>
    /\ UNCHANGED <<op, arg, window>>

\* One iteration of get_fundamentals' loop: get_metrics, then
\* get_next_earnings unless get_metrics raised.
FundamentalsStep(metricOutcomes, calendarOutcomes) ==
    /\ op = "get_fundamentals"
    /\ pc = "loop"
    /\ syms # <<>>
    /\ symbol_of(Head(syms)) # <<>>
    /\ \E mresp \in metricOutcomes, cresp \in calendarOutcomes, above \in BOOLEAN :
          LET sym == symbol_of(Head(syms))
              mcall == Call("/stock/metric", sym, mresp)
              ccall == Call("/calendar/earnings", sym, cresp)
              metrics == get_metrics(mcall.data, above)
              next_earn == get_next_earnings(sym, arg.now.date, ccall.data)
          IN  IF mcall.data.k = "raised" \/ metrics.raised
              THEN /\ calls' = Append(calls, mcall)
                   /\ sent' = sent + requests_made(mresp)
                   /\ Fail
              ELSE IF ccall.data.k = "raised"
              THEN /\ calls' = calls \o <<mcall, ccall>>
                   /\ sent' = sent + requests_made(mresp) + requests_made(cresp)
                   /\ Fail
              ELSE /\ calls' = calls \o <<mcall, ccall>>
                   /\ sent' = sent + requests_made(mresp) + requests_made(cresp)
                   /\ results' =
                        Append(results, fundamentals_record(sym, metrics, next_earn))
                   /\ syms' = Tail(syms)
                   /\ UNCHANGED <<pc, ret, status>>
    /\ UNCHANGED <<op, arg, window>>

\* One iteration of get_news_brief's loop.
NewsStep(outcomes) ==
    /\ op = "get_news_brief"
    /\ pc = "loop"
    /\ syms # <<>>
    /\ symbol_of(Head(syms)) # <<>>
    /\ \E resp \in outcomes :
          LET sym == symbol_of(Head(syms))
              call == Call("/company-news", sym, resp)
          IN  /\ calls' = Append(calls, call)
              /\ sent' = sent + requests_made(resp)
              /\ IF call.data.k = "raised" THEN Fail
                 ELSE /\ results' = Append(results, news_record(sym, call.data))
                      /\ syms' = Tail(syms)
                      /\ UNCHANGED <<pc, ret, status>>
    /\ UNCHANGED <<op, arg, window>>

\* The loop is over: the handler returns its payload.
Respond ==
    /\ pc = "loop"
    /\ syms = <<>>
    /\ status' = 200
    /\ ret' = CASE op = "get_market_snapshot" ->
                     [k |-> "snapshot", as_of |-> arg.now, tickers |-> results]
                [] op = "get_fundamentals" -> [k |-> "fundamentals", tickers |-> results]
                [] OTHER -> [k |-> "news", news |-> results]
    /\ pc' = "done"
    /\ UNCHANGED <<op, arg, syms, results, calls, sent, window>>

---------------------------------------------------------------------------
(* The upstream payloads and the requests of the endpoint specifications. *)

Num(m, e) == FloatV(Norm(m, e))

QuoteBody(c, dp, l, h) == [k |-> "quote", c |-> c, dp |-> dp, l |-> l, h |-> h]

QuoteBodies ==
    {QuoteBody(Num(1555, 2), Num(-15, 1), Num(15, 0), Num(1555, 2)),
     QuoteBody(Num(1555, 2), NoneV, Num(15, 0), NoneV),
     QuoteBody(IntV(0), NoneV, IntV(0), IntV(0))}

MetricWith(pe, eps, dy) ==
    MetricBody([NoMetric EXCEPT !["peTTM"] = pe, !["epsTTM"] = eps,
                                !["dividendYieldIndicatedAnnual"] = dy])

MetricBodies ==
    {MetricWith(Num(155, 1), StrV(<<"1", ".", "5">>), Num(12, 3)),
     MetricWith(StrV(<<"N", "/", "A">>), NoneV, StrV(<<"N", "/", "A">>)),
     MetricWith(StrV(<<"-", "-", "5">>), IntV(5), NoneV)}

SymA == <<"A">>
SymB == <<"B">>

CalBodies ==
    {CalBody(<<Row(SymB, StrV(isoformat(Date(2099, 1, 1)))),
               Row(SymA, StrV(isoformat(Date(2099, 3, 1)))),
               Row(SymA, StrV(Unpadded(Date(2099, 1, 1))))>>),
     CalBody(<<Row(SymA, StrV(isoformat(Date(2098, 11, 30)))),
               Row(SymA, StrV(<<"N", "/", "A">>))>>)}

NewsItem(i) ==
    [headline |-> StrV(<<"h", DigitChars[i + 1]>>), source |-> StrV(<<"s">>),
     datetime |-> IntV(1700 + i), url |-> StrV(<<"u", DigitChars[i + 1]>>)]

BareItem == [headline |-> NoneV, source |-> NoneV, datetime |-> NoneV, url |-> NoneV]

NewsItems == {NewsItem(1), BareItem}

NewsBody(items) == [k |-> "news", items |-> items]

StatusCodes == {200, 300, 404, 500}

\* What requests.get may do when the decodable bodies are `bodies`.
Outcomes(bodies) ==
    {TransportError} \cup
        {Response(code, body) : code \in StatusCodes, body \in {Undecodable} \cup bodies}

\* Upstream answers of one kind only: a failure or one good body.
QuietOutcomes(body) == {TransportError, Response(200, body)}

Noon == Instant(Date(2098, 12, 1), 12)

NewsBodies == {NewsBody(items) : items \in SeqsUpTo(NewsItems, MaxNews)}

\* The `tickers` parameter: absent, empty, and lists of one and two symbols.
TickerParams ==
    {NoneV, StrV(<<>>), StrV(<<",">>), StrV(<<"a">>), StrV(<<"a", ",", "b">>),
     StrV(<<" ", "A", " ", ",", ",", "b">>)}

ReceiveAny ==
    /\ pc = "start"
    /\ \E ep \in Endpoints, tickers \in TickerParams :
          Receive(ep, Request(tickers, 48, Noon))

Next ==
    \/ ReceiveAny
    \/ SkipEntry
    \/ SnapshotStep(Outcomes(QuoteBodies))
    \/ FundamentalsStep(Outcomes(MetricBodies), Outcomes(CalBodies))
    \/ NewsStep(Outcomes(NewsBodies))
    \/ Respond

Spec == InitPure /\ [][Next]_vars

\* Every `tickers` string of the alphabet, under quiet upstream answers.
TickerChars == {"a", "A", " ", ","}

ReceiveTickers ==
    /\ pc = "start"
    /\ \E ep \in Endpoints, tickers \in SeqsUpTo(TickerChars, MaxTickers) :
          Receive(ep, Request(StrV(tickers), 48, Noon))

GoodQuote == QuoteBody(Num(1555, 2), Num(-15, 1), Num(15, 0), Num(1555, 2))

GoodMetric == MetricWith(Num(155, 1), StrV(<<"1", ".", "5">>), Num(12, 3))

GoodCalendar == CalBody(<<Row(SymA, StrV(isoformat(Date(2099, 3, 1))))>>)

NextTickers ==
    \/ ReceiveTickers
    \/ SkipEntry
    \/ SnapshotStep(QuietOutcomes(GoodQuote))
    \/ FundamentalsStep(QuietOutcomes(GoodMetric), QuietOutcomes(GoodCalendar))
    \/ NewsStep(QuietOutcomes(NewsBody(<<NewsItem(1)>>)))
    \/ Respond

SpecTickers == InitPure /\ [][NextTickers]_vars

\* get_news_brief under every lookback and every news list.
Lookbacks == {-1, 0, 1, 2, 12, 13, 48, 167, 168, 169, 1000}

Nows == {Noon, Instant(Date(2099, 3, 1), 0)}

ReceiveNews ==
    /\ pc = "start"
    /\ \E h \in Lookbacks, now \in Nows,
          tickers \in {<<"a">>, <<"a", ",", "b">>} :
          Receive("get_news_brief", Request(StrV(tickers), h, now))

NextNews ==
    \/ ReceiveNews
    \/ NewsStep({TransportError} \cup {Response(200, b) : b \in NewsBodies})
    \/ Respond

SpecNews == InitPure /\ [][NextNews]_vars

---------------------------------------------------------------------------
(* The claims. *)

\* The number a value converts to, for the values float() accepts.
Numeric(v) == float(v) # Raised

\* r is x (or 100 x) to 4 decimal places: r has at most 4 decimals and lies
\* within half a unit of the fourth place.
Nearest4(r, x) ==
    LET E == IF x.e > 4 THEN x.e ELSE 4
    IN  /\ r.e <= 4
        /\ 2 * Abs(r.m * Pow10(E - r.e) - x.m * Pow10(E - x.e)) <= Pow10(E - 4)

Nearest4Scaled(r, x) ==
    LET E == IF x.e > 6 THEN x.e ELSE 6
    IN  /\ r.e <= 4
        /\ 2 * Abs(r.m * Pow10(E - r.e - 2) - x.m * Pow10(E - x.e)) <= Pow10(E - 6)

\* C1: normalize_div_yield(v) is v*100 rounded to 4 decimal places when
\* 0 < v < 1, v rounded to 4 decimal places for every other number (0, 1,
\* above 1, negative), and null for None and for what is not a number.
C1_YieldRule ==
    (op = "normalize_div_yield" /\ pc = "done") =>
        IF arg.t # "none" /\ Numeric(arg)
        THEN LET v == float(arg).n
             IN  /\ ret.t = "float"
                 /\ IF 0 < v.m /\ v.m < Pow10(v.e)
                    THEN Nearest4Scaled(ret.n, v)
                    ELSE Nearest4(ret.n, v)
        ELSE ret = NoneV

\* A fraction with a fifth decimal was scaled by 100 and rounded.
C1_Witness ==
    /\ op = "normalize_div_yield" /\ pc = "done"
    /\ arg = FloatV(Norm(15, 7))
    /\ ret = FloatV(Norm(2, 4))

\* The calendar dates of the years the model's payloads name.
RealDates ==
    {dt \in {Date(y, m, d) : y \in {2096, 2098, 2099}, m \in 1..12, d \in 1..31} :
        dt.d <= DaysIn(dt.y, dt.m)}

\* The strings the format %Y-%m-%d reads as the date: the month and the day
\* with or without a leading zero, the day also with a leading space.
Renderings(dt) ==
    {Pad(dt.y, 4) \o <<"-">> \o mm \o <<"-">> \o dd :
        mm \in {Pad(dt.m, 2), NatStr(dt.m)},
        dd \in {Pad(dt.d, 2), NatStr(dt.d)} \cup
               (IF dt.d < 10 THEN {<<" ">> \o NatStr(dt.d)} ELSE {})}

RenderingPairs == UNION {{<<r, dt>> : r \in Renderings(dt)} : dt \in RealDates}


\* The set S of claim C2: the dates d >= today that an entry of the symbol
\* spells in the format %Y-%m-%d.
EligibleDates(symbol, today, payload) ==
    IF payload.k # "calendar" THEN {}
    ELSE LET cal == payload.earningsCalendar
             spelt == {cal[i].date.s : i \in {j \in 1..Len(cal) :
                          cal[j].symbol = symbol /\ cal[j].date.t = "str"}}
         IN  {p[2] : p \in {q \in RenderingPairs :
                              q[1] \in spelt /\ Ordinal(q[2]) >= Ordinal(today)}}

\* C2: get_next_earnings returns the earliest date of S in ISO form, and
\* null when S is empty; never a date before today.
C2_NextEarnings ==
    (op = "get_next_earnings" /\ pc = "done") =>
        LET S == EligibleDates(arg.symbol, arg.today, arg.payload)
        IN  IF S = {} THEN ret = NoneV
            ELSE \E dt \in S :
                    /\ \A o \in S : Ordinal(dt) <= Ordinal(o)
                    /\ ret = StrV(Pad(dt.y, 4) \o <<"-">> \o Pad(dt.m, 2)
                                    \o <<"-">> \o Pad(dt.d, 2))

\* The later date comes first in the payload, and the earlier is returned.
C2_Witness ==
    /\ op = "get_next_earnings" /\ pc = "done"
    /\ arg.today = Date(2098, 12, 1)
    /\ arg.payload = CalBody(<<Row(SymX, StrV(isoformat(Date(2099, 3, 1)))),
                               Row(SymX, StrV(Unpadded(Date(2099, 1, 1))))>>)
    /\ ret = StrV(isoformat(Date(2099, 1, 1)))

\* The first candidate key of a metric object that is present and not null.
FirstPresent(m, keys) ==
    IF \E i \in 1..Len(keys) : m[keys[i]].t # "none"
    THEN m[keys[CHOOSE i \in 1..Len(keys) :
                    /\ m[keys[i]].t # "none"
                    /\ \A j \in 1..(i - 1) : m[keys[j]].t = "none"]]
    ELSE NoneV

ExpectedNumber(c) ==
    IF c.t \in {"int", "float"} \/ (c.t = "str" /\ FloatParses(c.s))
    THEN FloatV(float(c).n)
    ELSE NoneV

\* C10: pe_ttm comes from peBasicExclExtraTTM, else peTTM, else null;
\* eps_ttm from epsInclExtraItemsTTM, else epsTTM, else epsNormalizedAnnual,
\* else null; a candidate that is a number, or a string of a possibly
\* negative, possibly decimal number, yields that number, any other null.
C10_MetricSelection ==
    (op = "get_metrics" /\ pc = "done" /\ arg.k = "metric") =>
        /\ ~ret.raised
        /\ ret.pe_ttm =
             ExpectedNumber(FirstPresent(arg.metric, <<"peBasicExclExtraTTM", "peTTM">>))
        /\ ret.eps_ttm =
             ExpectedNumber(FirstPresent(arg.metric,
                 <<"epsInclExtraItemsTTM", "epsTTM", "epsNormalizedAnnual">>))

\* C3: each ticker endpoint answers HTTP 400 with a message describing
\* the expected format whenever `tickers` is missing or the empty string.
C3_MissingOrEmptyIs400 ==
    (op \in Endpoints /\ pc = "done"
        /\ (arg.tickers.t = "none" \/ arg.tickers.s = <<>>)) =>
            /\ status = 400
            /\ ret = ErrorBody("Provide ?tickers=COMMA,SEP,SYMBOLS")

\* The data fields an upstream call feeds are all null in the record.
NullFor(path, rec) ==
    CASE path = "/quote" ->
            /\ rec.price = NoneV /\ rec.change_pct = NoneV /\ rec.volume = NoneV
            /\ rec.range_day = NoneV /\ rec.range_52w = NoneV
            /\ rec.market_cap = NoneV /\ rec.beta = NoneV
      [] path = "/stock/metric" ->
            rec.pe_ttm = NoneV /\ rec.eps_ttm = NoneV /\ rec.div_yield_pct = NoneV
      [] path = "/calendar/earnings" -> rec.next_earnings = NoneV
      [] OTHER -> rec.items = <<>>

\* The records already emitted are left as they are by every later step.
RecordsKept ==
    (pc = "loop") =>
        /\ Len(results') >= Len(results)
        /\ \A i \in 1..Len(results) : results'[i] = results[i]

IsNon2xx(resp) ==
    resp.kind = "error" \/ resp.status_code < 200 \/ resp.status_code > 299

Is4xx5xx(resp) ==
    resp.kind = "error" \/ (resp.status_code >= 400 /\ resp.status_code <= 599)

\* What counts as a failed call: with `strict`, a transport error or any
\* status outside 2xx; without, a transport error or a 4xx or 5xx status.
CallFailed(strict, resp) == IF strict THEN IsNon2xx(resp) ELSE Is4xx5xx(resp)

\* A failed call's ticker has its record, with the call's fields null.
Degrades(strict) ==
    \A i \in 1..Len(calls) :
        CallFailed(strict, calls[i].resp) =>
            /\ calls[i].index <= Len(results)
            /\ results[calls[i].index].ticker = calls[i].symbol
            /\ NullFor(calls[i].path, results[calls[i].index])

BadBody(resp) == resp.kind = "response" /\ resp.body = Undecodable

\* Every call that failed returned {}, and each call sent one request.
Returned(strict) ==
    /\ \A i \in 1..Len(calls) :
          (CallFailed(strict, calls[i].resp) \/ BadBody(calls[i].resp)) =>
              calls[i].data = EmptyObj
    /\ sent = Len(calls)

C6_NeverRaises ==
    (op = "get_fundamentals" /\ pc = "done" /\ arg.tickers.t = "str"
        /\ arg.tickers.s # <<>>) => status = 200

\* The positions of the commas of a string, and its entries between them.
Commas(s) == {i \in 1..Len(s) : s[i] = ","}

NthComma(s, n) ==
    IF n = 0 THEN 0
    ELSE IF n > Cardinality(Commas(s)) THEN Len(s) + 1
    ELSE CHOOSE i \in Commas(s) : Cardinality({j \in Commas(s) : j <= i}) = n

Entry(s, n) == SubSeq(s, NthComma(s, n - 1) + 1, NthComma(s, n) - 1)

Trimmed(e) ==
    LET ink == {i \in 1..Len(e) : e[i] # " "}
    IN  IF ink = {} THEN <<>>
        ELSE SubSeq(e, CHOOSE i \in ink : \A j \in ink : i <= j,
                       CHOOSE i \in ink : \A j \in ink : i >= j)

Capital(c) == IF c = "a" THEN "A" ELSE IF c = "b" THEN "B" ELSE c

Capitals(e) == [i \in 1..Len(e) |-> Capital(e[i])]

\* The entries that are not empty once trimmed, in input order.
KeptEntries(s) ==
    LET all == [n \in 1..(Cardinality(Commas(s)) + 1) |-> Capitals(Trimmed(Entry(s, n)))]
    IN  SelectSeq(all, LAMBDA e : Len(e) > 0)

\* C7: the response list has one record per comma-separated entry that is
\* not empty once trimmed, in input order, duplicates kept, its ticker the
\* entry trimmed and upper-cased; no ticker is empty or has a lower-case
\* letter.
C7_TickerParsing ==
    (op \in Endpoints /\ pc \in {"loop", "done"} /\ status \in {0, 200}) =>
        LET want == KeptEntries(arg.tickers.s)
        IN  /\ Len(results) <= Len(want)
            /\ \A i \in 1..Len(results) :
                    /\ Len(results[i].ticker) = Len(want[i])
                    /\ \A j \in 1..Len(want[i]) : results[i].ticker[j] = want[i][j]
                    /\ Len(results[i].ticker) > 0
                    /\ \A j \in 1..Len(results[i].ticker) :
                            results[i].ticker[j] \notin {"a", "b"}
            /\ status = 200 => Len(results) = Len(want)

\* " a,a": two records, both "A".
C7_Witness ==
    /\ op = "get_news_brief" /\ pc = "done" /\ status = 200
    /\ arg.tickers.s = <<" ", "a", ",", "A">>
    /\ Len(results) = 2
    /\ results[1].ticker = <<"A">>
    /\ results[2].ticker = <<"A">>

\* C8: items is the first min(n, 3) entries of the upstream news list, in
\* upstream order.
C8_NewsPrefix ==
    \A i \in 1..Len(calls) :
        (/\ calls[i].path = "/company-news"
         /\ calls[i].resp.kind = "response"
         /\ calls[i].resp.status_code = 200
         /\ calls[i].resp.body.k = "news"
         /\ calls[i].index <= Len(results)) =>
            LET up == calls[i].resp.body.items
                items == results[calls[i].index].items
            IN  /\ Len(items) = (IF Len(up) < 3 THEN Len(up) ELSE 3)
                /\ \A j \in 1..Len(items) :
                      /\ items[j].headline = up[j].headline
                      /\ items[j].source = up[j].source
                      /\ items[j].url = up[j].url
                      /\ items[j].time = StrV(str(up[j].datetime))

\* Four upstream entries, three items.
C8_Witness ==
    /\ op = "get_news_brief" /\ pc = "done" /\ status = 200
    /\ Len(calls) = 1
    /\ calls[1].resp =
         Response(200, NewsBody(<<BareItem, NewsItem(1), NewsItem(1), BareItem>>))
    /\ Len(results[1].items) = 3
    /\ results[1].items[1].time = StrV(<<"N", "o", "n", "e">>)

\* The days from 1 January 2098 to a date of 2098 or 2099.
DaysBefore(dt) ==
    LET monthDays[m \in 0..12] == IF m = 0 THEN 0 ELSE monthDays[m - 1] + DaysIn(dt.y, m)
    IN  (IF dt.y = 2098 THEN 0 ELSE 365) + monthDays[dt.m - 1] + dt.d - 1

\* The dates of the month of a date and of the month before it.
AroundMonth(dt) ==
    LET before == IF dt.m = 1 THEN Date(dt.y - 1, 12, 1) ELSE Date(dt.y, dt.m - 1, 1)
    IN  {Date(dt.y, dt.m, d) : d \in 1..DaysIn(dt.y, dt.m)}
            \cup {Date(before.y, before.m, d) : d \in 1..DaysIn(before.y, before.m)}

\* C9: the window starts at now less the lookback clamped into [1, 168]
\* (h itself in that range, 1 below it, 168 above it) and ends now.
C9_LookbackClamp ==
    (op = "get_news_brief" /\ pc \in {"loop", "done"}) =>
        LET h == arg.lookback_hours
            c == IF h < 1 THEN 1 ELSE IF h > 168 THEN 168 ELSE h
            hoursNow == 24 * DaysBefore(arg.now.date) + arg.now.hour
            day == (hoursNow - c) \div 24
        IN  /\ \E dt \in AroundMonth(arg.now.date) :
                  /\ DaysBefore(dt) = day
                  /\ window.from_date = Pad(dt.y, 4) \o <<"-">> \o Pad(dt.m, 2)
                                          \o <<"-">> \o Pad(dt.d, 2)
            /\ window.to_date = Pad(arg.now.date.y, 4) \o <<"-">>
                                  \o Pad(arg.now.date.m, 2) \o <<"-">>
                                  \o Pad(arg.now.date.d, 2)

\* lookback_hours=1000 at 2099-03-01T00: the window starts 7 days earlier.
C9_Witness ==
    /\ op = "get_news_brief" /\ pc = "done"
    /\ arg.lookback_hours = 1000
    /\ arg.now = Instant(Date(2099, 3, 1), 0)
    /\ window.from_date = isoformat(Date(2099, 2, 22))

====
